---- MODULE Spec2Model ----
(***************************************************************************)
(* State-machine model of the todo store (src/services/todoService.js)     *)
(* and of the transport handlers that call it (src/routes/todoRoutes.js,   *)
(* src/server.js).                                                         *)
(***************************************************************************)
EXTENDS Integers, Sequences, FiniteSets, TLC

\* ------------------------------------------------------------------ bounds
\* add is not called once the counter has reached this value
MaxNextId == 3
\* number of request slots that may be in flight at once
MaxCalls == 2

\* ------------------------------------------------------------- input data
\* titles are strings, modelled as sequences of characters
Titles == { <<"A", "b">>, <<"b">> }
Queries == { <<"a">>, <<"B">>, <<"a", "B">>, <<"A", "A">> }
Indexes == -1 .. MaxNextId
\* body.index of POST <apiBase>/complete-by-index: an integer, or anything else
IndexBodies ==
  {[isInt |-> TRUE, index |-> i] : i \in Indexes}
    \cup {[isInt |-> FALSE, index |-> 0]}
IdNumbers == 0 .. MaxNextId
\* the calls of the worked example
BuyMilk == <<"B", "u", "y", " ", "m", "i", "l", "k">>
WalkDog == <<"W", "a", "l", "k", " ", "d", "o", "g">>
Dog == <<"d", "o", "g">>
Scenario ==
  << <<"add", BuyMilk>>, <<"add", WalkDog>>, <<"completeByIndex", 1>>,
     <<"completeByTitle", Dog>>, <<"deleteCompleted">> >>
\* body.title of the POST routes: missing or empty, blank, padded, plain
BodyTitles == { <<>>, <<" ">>, <<" ", "b">>, <<"A", "b">> }
\* title argument of the MCP tools: z.string().min(1)
ToolTitles == { t \in BodyTitles : Len(t) >= 1 }

\* ---------------------------------------------------------------- strings
Lower(c) ==
  CASE c = "A" -> "a"
    [] c = "B" -> "b"
    [] c = "W" -> "w"
    [] OTHER -> c

toLowerCase(s) == [i \in 1..Len(s) |-> Lower(s[i])]

RECURSIVE trimStart(_)
trimStart(s) ==
  IF s # <<>> /\ Head(s) = " " THEN trimStart(Tail(s)) ELSE s

RECURSIVE trimEnd(_)
trimEnd(s) ==
  IF s # <<>> /\ s[Len(s)] = " " THEN trimEnd(SubSeq(s, 1, Len(s) - 1)) ELSE s

\* String.prototype.trim
trim(s) == trimEnd(trimStart(s))

\* variant: the text must begin with q
includes_startsWith(s, q) ==
  Len(q) <= Len(s) /\ SubSeq(s, 1, Len(q)) = q

includes(s, q) ==
  \E i \in 0..(Len(s) - Len(q)) : SubSeq(s, i + 1, i + Len(q)) = q

\* ---------------------------------------------------------------- records
TodoId(n) == <<"todo-", n>>

Suffix(id) == id[2]

MkTodo(n, title, completed) ==
  [id |-> TodoId(n), title |-> title, completed |-> completed]

\* Array.prototype.find on ids: index of the first record with that id, 0 if none
findById(ts, id) ==
  IF \E i \in 1..Len(ts) : ts[i].id = id
  THEN CHOOSE i \in 1..Len(ts) :
         /\ ts[i].id = id
         /\ \A j \in 1..(i - 1) : ts[j].id # id
  ELSE 0

\* index of the first incomplete record whose lower-cased title contains q, 0 if none
findByTitle(ts, q) ==
  LET hit(i) == ~ts[i].completed /\ includes(toLowerCase(ts[i].title), q)
  IN IF \E i \in 1..Len(ts) : hit(i)
     THEN CHOOSE i \in 1..Len(ts) : hit(i) /\ \A j \in 1..(i - 1) : ~hit(j)
     ELSE 0

\* ------------------------------------------------------- the backing file
AbsentFile ==
  [kind |-> "absent", todosIsArray |-> FALSE, todos |-> <<>>,
   nextIdKind |-> "missing", nextId |-> 0]

GarbageFile ==
  [kind |-> "garbage", todosIsArray |-> FALSE, todos |-> <<>>,
   nextIdKind |-> "missing", nextId |-> 0]

\* a path that exists but cannot be read (EACCES, EISDIR, ...)
UnreadableFile ==
  [kind |-> "unreadable", todosIsArray |-> FALSE, todos |-> <<>>,
   nextIdKind |-> "missing", nextId |-> 0]

JsonFile(isArr, ts, nk, n) ==
  [kind |-> "json", todosIsArray |-> isArr, todos |-> ts,
   nextIdKind |-> nk, nextId |-> n]

\* JSON.stringify({ todos: newTodos, nextId })
stringify(newTodos, n) == JsonFile(TRUE, newTodos, "int", n)

\* files found at start-up that an earlier run, an older version or a user left
ExistingTodoLists ==
  { <<MkTodo(2, <<"A", "b">>, FALSE)>>,
    <<MkTodo(1, <<"b">>, TRUE), MkTodo(2, <<"A", "b">>, FALSE)>> }

InitialFiles ==
  {AbsentFile, GarbageFile, UnreadableFile}
    \cup { JsonFile(FALSE, <<>>, "int", 2), JsonFile(FALSE, <<>>, "missing", 0) }
    \cup { JsonFile(TRUE, ts, "int", 3) : ts \in ExistingTodoLists }
    \cup { JsonFile(TRUE, ts, nk, 0) :
             ts \in ExistingTodoLists, nk \in {"missing", "other"} }

\* files the overlapping-request runs start from: none, two that the store
\* wrote in an earlier run, and one without nextId
ConcFiles ==
  { AbsentFile,
    stringify(<<MkTodo(1, <<"b">>, FALSE)>>, 2),
    stringify(<<MkTodo(1, <<"A", "b">>, TRUE), MkTodo(2, <<"b">>, FALSE)>>, 3),
    JsonFile(TRUE, <<MkTodo(2, <<"A", "b">>, FALSE)>>, "missing", 0) }

\* ------------------------------------------------------------------ state
VARIABLES
  up,        \* "none": no store yet, "open": store constructed, "failed": create threw
  todos,     \* this.todos
  nextId,    \* this.nextId
  file,      \* content of the data file
  origin,    \* how this store instance was created: "none", "empty", "file"
  minted,    \* numeric suffixes minted by this store instance
  returned,  \* ids returned by add of this store instance, in call order
  prev,      \* store state and file before the last call
  last,      \* outcome of the last call
  clean,     \* no writeFile of this store instance has failed so far
  issued,    \* ids returned by successful adds since the first start, in order
  hist,      \* the calls made so far when the worked example is replayed
  gone,      \* ids that a deleteById of the store removed with success
  repeatOf,  \* when the last call repeats the successful completion by id that
             \* preceded it: the record that preceding call returned, else <<>>
  calls      \* in-flight requests (overlapping execution)

vars ==
  <<up, todos, nextId, file, origin, minted, returned, prev, last, clean,
    repeatOf, gone, hist, issued, calls>>

St == [todos |-> todos, nextId |-> nextId, file |-> file]

\* ---------------------------------------------------------------- results
NoRes ==
  [op |-> "none", ok |-> FALSE, threw |-> FALSE, reason |-> "",
   todo |-> <<>>, index |-> 0, deleted |-> <<>>, writes |-> 0,
   id |-> TodoId(0), title |-> <<>>, status |-> 0, intIndex |-> TRUE,
   hasTodos |-> FALSE, tasks |-> <<>>]

res(op) == [NoRes EXCEPT !.op = op]

okTodo(r, t, w) == [r EXCEPT !.ok = TRUE, !.todo = <<t>>, !.writes = w]

failWith(r, reason) == [r EXCEPT !.reason = reason]

\* the promise of the call rejects with the error of writeFile
thrown(r) == [r EXCEPT !.threw = TRUE, !.reason = "write_failed"]

\* ----------------------------------------------------------- TodoService
\* variant: the payload is built from the current sequence, not the candidate
saveStart_staleSequence(s, newTodos) ==
  [newTodos |-> newTodos, payload |-> stringify(s.todos, s.nextId)]

\* variant: the counter is not part of the payload
saveStart_withoutNextId(s, newTodos) ==
  [newTodos |-> newTodos, payload |-> JsonFile(TRUE, newTodos, "missing", 0)]

\* #saveAtomically up to the await: the payload is built from the candidate
saveStart(s, newTodos) ==
  [newTodos |-> newTodos, payload |-> stringify(newTodos, s.nextId)]

\* variant: the sequence is assigned before the outcome of the write is known
saveFinish_commitFirst(s, w, wok) ==
  IF wok
  THEN [s EXCEPT !.todos = w.newTodos, !.file = w.payload]
  ELSE [s EXCEPT !.todos = w.newTodos]

\* variant: the file is written but the sequence is never assigned
saveFinish_noAssign(s, w, wok) ==
  IF wok
  THEN [s EXCEPT !.file = w.payload]
  ELSE s

\* #saveAtomically after the await: commit only when writeFile resolved
saveFinish(s, w, wok) ==
  IF wok
  THEN [s EXCEPT !.todos = w.newTodos, !.file = w.payload]
  ELSE s

saveAtomically(s, newTodos, wok) == saveFinish(s, saveStart(s, newTodos), wok)

\* what a call holds while it is suspended at `await writeFile`, or its
\* result when it returned without writing
NoWrite == [newTodos |-> <<>>, payload |-> AbsentFile]

returns(s, r) ==
  [st |-> s, done |-> TRUE, res |-> r, w |-> NoWrite,
   todo |-> <<>>, deleted |-> <<>>]

awaits(s, r, newTodos, todo, deleted) ==
  [st |-> s, done |-> FALSE, res |-> r, w |-> saveStart(s, newTodos),
   todo |-> todo, deleted |-> deleted]

\* variant: the counter is read but not incremented
addBegin_noIncrement(s, title) ==
  LET todo == MkTodo(s.nextId, title, FALSE)
      newTodos == Append(s.todos, todo)
  IN awaits(s, [res("add") EXCEPT !.title = title], newTodos, <<todo>>, <<>>)

\* variant: the id is taken from the length of the list
addBegin_idFromLength(s, title) ==
  LET todo == MkTodo(Len(s.todos) + 1, title, FALSE)
      s1 == [s EXCEPT !.nextId = Len(s.todos) + 2]
      newTodos == Append(s1.todos, todo)
  IN awaits(s1, [res("add") EXCEPT !.title = title], newTodos, <<todo>>, <<>>)

\* variant: the new record is put in front of the list
addBegin_prepends(s, title) ==
  LET todo == MkTodo(s.nextId, title, FALSE)
      s1 == [s EXCEPT !.nextId = s.nextId + 1]
      newTodos == <<todo>> \o s1.todos
  IN awaits(s1, [res("add") EXCEPT !.title = title], newTodos, <<todo>>, <<>>)

\* add, up to the await: the counter is post-incremented while the record is built
addBegin(s, title) ==
  LET todo == MkTodo(s.nextId, title, FALSE)
      s1 == [s EXCEPT !.nextId = s.nextId + 1]
      newTodos == Append(s1.todos, todo)
  IN awaits(s1, [res("add") EXCEPT !.title = title], newTodos, <<todo>>, <<>>)

addEnd(s, b, wok) ==
  [st |-> saveFinish(s, b.w, wok),
   res |-> IF wok THEN okTodo(b.res, b.todo[1], 1) ELSE thrown(b.res)]

add(s, title, wok) ==
  LET b == addBegin(s, title) IN addEnd(b.st, b, wok)

\* variant: no early return for a record that is already completed
completeByIdBegin_alwaysWrites(s, id) ==
  LET i == findById(s.todos, id)
      r == [res("completeById") EXCEPT !.id = id]
  IN IF i = 0 THEN returns(s, failWith(r, "not_found"))
     ELSE awaits(s, r,
                 [j \in 1..Len(s.todos) |->
                    IF s.todos[j].id = id
                    THEN [s.todos[j] EXCEPT !.completed = TRUE]
                    ELSE s.todos[j]],
                 <<>>, <<>>)

completeByIdBegin(s, id) ==
  LET i == findById(s.todos, id)
      r == [res("completeById") EXCEPT !.id = id]
  IN IF i = 0 THEN returns(s, failWith(r, "not_found"))
     ELSE IF s.todos[i].completed
          THEN returns(s, okTodo(r, s.todos[i], 0))
          ELSE awaits(s, r,
                      [j \in 1..Len(s.todos) |->
                         IF s.todos[j].id = id
                         THEN [s.todos[j] EXCEPT !.completed = TRUE]
                         ELSE s.todos[j]],
                      <<>>, <<>>)

completeByIdEnd(s, b, wok) ==
  LET s2 == saveFinish(s, b.w, wok)
  IN [st |-> s2,
      res |-> IF wok
              THEN okTodo(b.res, s2.todos[findById(s2.todos, b.res.id)], 1)
              ELSE thrown(b.res)]

completeById(s, id, wok) ==
  LET b == completeByIdBegin(s, id)
  IN IF b.done THEN [st |-> b.st, res |-> b.res]
     ELSE completeByIdEnd(b.st, b, wok)

\* variant: the index is taken as 0-based
completeByIndexBegin_zeroBased(s, index) ==
  LET r == [res("completeByIndex") EXCEPT !.index = index]
  IN IF index < 0 \/ index >= Len(s.todos)
     THEN returns(s, failWith(r, "invalid_index"))
     ELSE IF s.todos[index + 1].completed
          THEN returns(s, okTodo(r, s.todos[index + 1], 0))
          ELSE awaits(s, r,
                      [i \in 1..Len(s.todos) |->
                         IF i = index + 1
                         THEN [s.todos[i] EXCEPT !.completed = TRUE]
                         ELSE s.todos[i]],
                      <<>>, <<>>)

\* variant: a record that is already completed is switched back
completeByIndexBegin_toggles(s, index) ==
  LET r == [res("completeByIndex") EXCEPT !.index = index]
  IN IF index < 1 \/ index > Len(s.todos)
     THEN returns(s, failWith(r, "invalid_index"))
     ELSE awaits(s, r,
                 [i \in 1..Len(s.todos) |->
                    IF i = index
                    THEN [s.todos[i] EXCEPT !.completed = ~s.todos[i].completed]
                    ELSE s.todos[i]],
                 <<>>, <<>>)

completeByIndexBegin(s, index) ==
  LET r == [res("completeByIndex") EXCEPT !.index = index]
  IN IF index < 1 \/ index > Len(s.todos)
     THEN returns(s, failWith(r, "invalid_index"))
     ELSE IF s.todos[index].completed
          THEN returns(s, okTodo(r, s.todos[index], 0))
          ELSE awaits(s, r,
                      [i \in 1..Len(s.todos) |->
                         IF i = index
                         THEN [s.todos[i] EXCEPT !.completed = TRUE]
                         ELSE s.todos[i]],
                      <<>>, <<>>)

completeByIndexEnd(s, b, wok) ==
  LET s2 == saveFinish(s, b.w, wok)
  IN [st |-> s2,
      res |-> IF wok
              THEN okTodo(b.res, s2.todos[b.res.index], 1)
              ELSE thrown(b.res)]

completeByIndex(s, index, wok) ==
  LET b == completeByIndexBegin(s, index)
  IN IF b.done THEN [st |-> b.st, res |-> b.res]
     ELSE completeByIndexEnd(b.st, b, wok)

completeByTitleBegin(s, searchTitle) ==
  LET normalizedTitle == toLowerCase(searchTitle)
      m == findByTitle(s.todos, normalizedTitle)
      r == [res("completeByTitle") EXCEPT !.title = searchTitle]
  IN IF m = 0 THEN returns(s, failWith(r, "not_found"))
     ELSE awaits(s, [r EXCEPT !.id = s.todos[m].id],
                 [j \in 1..Len(s.todos) |->
                    IF s.todos[j].id = s.todos[m].id
                    THEN [s.todos[j] EXCEPT !.completed = TRUE]
                    ELSE s.todos[j]],
                 <<>>, <<>>)

completeByTitleEnd(s, b, wok) ==
  LET s2 == saveFinish(s, b.w, wok)
  IN [st |-> s2,
      res |-> IF wok
              THEN okTodo(b.res, s2.todos[findById(s2.todos, b.res.id)], 1)
              ELSE thrown(b.res)]

completeByTitle(s, searchTitle, wok) ==
  LET b == completeByTitleBegin(s, searchTitle)
  IN IF b.done THEN [st |-> b.st, res |-> b.res]
     ELSE completeByTitleEnd(b.st, b, wok)

\* variant: an id that is not in the list is reported as deleted
deleteByIdBegin_missingIsOk(s, id) ==
  LET i == findById(s.todos, id)
      r == [res("deleteById") EXCEPT !.id = id]
  IN IF i = 0 THEN returns(s, [r EXCEPT !.ok = TRUE])
     ELSE awaits(s, r, SelectSeq(s.todos, LAMBDA t : t.id # id),
                 <<s.todos[i]>>, <<>>)

deleteByIdBegin(s, id) ==
  LET i == findById(s.todos, id)
      r == [res("deleteById") EXCEPT !.id = id]
  IN IF i = 0 THEN returns(s, failWith(r, "not_found"))
     ELSE awaits(s, r, SelectSeq(s.todos, LAMBDA t : t.id # id),
                 <<s.todos[i]>>, <<>>)

deleteByIdEnd(s, b, wok) ==
  [st |-> saveFinish(s, b.w, wok),
   res |-> IF wok THEN okTodo(b.res, b.todo[1], 1) ELSE thrown(b.res)]

deleteById(s, id, wok) ==
  LET b == deleteByIdBegin(s, id)
  IN IF b.done THEN [st |-> b.st, res |-> b.res]
     ELSE deleteByIdEnd(b.st, b, wok)

\* variant: no early return when no record is completed
deleteCompletedBegin_alwaysWrites(s) ==
  awaits(s, res("deleteCompleted"),
         SelectSeq(s.todos, LAMBDA t : ~t.completed),
         <<>>, SelectSeq(s.todos, LAMBDA t : t.completed))

deleteCompletedBegin(s) ==
  LET completed == SelectSeq(s.todos, LAMBDA t : t.completed)
      r == res("deleteCompleted")
  IN IF Len(completed) = 0
     THEN returns(s, [r EXCEPT !.ok = TRUE])
     ELSE awaits(s, r, SelectSeq(s.todos, LAMBDA t : ~t.completed),
                 <<>>, completed)

\* variant: the removed records are not reported
deleteCompletedEnd_reportsNone(s, b, wok) ==
  [st |-> saveFinish(s, b.w, wok),
   res |-> IF wok
           THEN [b.res EXCEPT !.ok = TRUE, !.writes = 1]
           ELSE thrown(b.res)]

deleteCompletedEnd(s, b, wok) ==
  [st |-> saveFinish(s, b.w, wok),
   res |-> IF wok
           THEN [b.res EXCEPT !.ok = TRUE, !.deleted = b.deleted, !.writes = 1]
           ELSE thrown(b.res)]

deleteCompleted(s, wok) ==
  LET b == deleteCompletedBegin(s)
  IN IF b.done THEN [st |-> b.st, res |-> b.res]
     ELSE deleteCompletedEnd(b.st, b, wok)

\* the continuation of a suspended call, by the method that is suspended
resume(s, b, wok) ==
  CASE b.res.op = "add" -> addEnd(s, b, wok)
    [] b.res.op = "completeById" -> completeByIdEnd(s, b, wok)
    [] b.res.op = "completeByIndex" -> completeByIndexEnd(s, b, wok)
    [] b.res.op = "completeByTitle" -> completeByTitleEnd(s, b, wok)
    [] b.res.op = "deleteById" -> deleteByIdEnd(s, b, wok)
    [] OTHER -> deleteCompletedEnd(s, b, wok)

\* save(): the current sequence is its own candidate
save(s, wok) == saveAtomically(s, s.todos, wok)

\* variant: nextId is always taken from the length of the list
createFromFile_nextIdFromLength(f) ==
  LET ts == IF f.todosIsArray THEN f.todos ELSE <<>>
  IN [up |-> "open",
      st |-> [todos |-> ts, nextId |-> Len(ts) + 1, file |-> f],
      origin |-> "file"]

\* the try block of create: the file was read and parsed
createFromFile(f) ==
  LET ts == IF f.todosIsArray THEN f.todos ELSE <<>>
      n == IF f.nextIdKind = "int" THEN f.nextId ELSE Len(ts) + 1
  IN [up |-> "open",
      st |-> [todos |-> ts, nextId |-> n, file |-> f],
      origin |-> "file"]

\* variant: the store is returned whether or not the first save succeeded
createNew_ignoresWrite(f, wok) ==
  [up |-> "open",
   st |-> save([todos |-> <<>>, nextId |-> 1, file |-> f], wok),
   origin |-> "empty"]

\* the catch block of create after ENOENT: new store, written at once
createNew(f, wok) ==
  [up |-> IF wok THEN "open" ELSE "failed",
   st |-> save([todos |-> <<>>, nextId |-> 1, file |-> f], wok),
   origin |-> "empty"]

\* variant: every error of the try block starts a new store
create_catchesAll(f, wok) ==
  CASE f.kind \in {"absent", "garbage"} -> createNew(f, wok)
    [] OTHER -> createFromFile(f)

\* variant: a read error of any kind starts a new store
create_readErrorIsNew(f, wok) ==
  CASE f.kind \in {"absent", "unreadable"} -> createNew(f, wok)
    [] f.kind = "garbage" ->
         [up |-> "failed",
          st |-> [todos |-> <<>>, nextId |-> 1, file |-> f],
          origin |-> "none"]
    [] OTHER -> createFromFile(f)

\* TodoService.create: up is "open" when a store is returned
create(f, wok) ==
  CASE f.kind = "absent" -> createNew(f, wok)
    [] f.kind \in {"garbage", "unreadable"} ->
         \* readFile rejects with a code other than ENOENT, or JSON.parse
         \* throws a SyntaxError: the error is rethrown
         [up |-> "failed",
          st |-> [todos |-> <<>>, nextId |-> 1, file |-> f],
          origin |-> "none"]
    [] OTHER -> createFromFile(f)

\* ---------------------------------------------------------- REST routes
\* PUT <apiBase>/:id
routePut(s, id, wok) ==
  LET o == completeById(s, id, wok)
  IN [o EXCEPT !.res.op = "PUT",
               !.res.status = IF o.res.threw THEN 0
                              ELSE IF o.res.ok THEN 200 ELSE 404]

\* POST <apiBase>/complete-by-index; a rejection of the store call is caught
\* and answered with 400 like a bad body
routeCompleteByIndex(s, body, wok) ==
  LET r == [res("POSTindex") EXCEPT !.index = body.index, !.intIndex = body.isInt]
  IN IF ~body.isInt \/ body.index < 1
     THEN [st |-> s, res |-> [failWith(r, "invalid_index") EXCEPT !.status = 400]]
     ELSE LET o == completeByIndex(s, body.index, wok)
          IN [st |-> o.st,
              res |-> [o.res EXCEPT !.op = "POSTindex",
                                    !.status = IF o.res.ok THEN 200 ELSE 400]]

\* DELETE <apiBase>/:id
routeDelete(s, id, wok) ==
  LET o == deleteById(s, id, wok)
  IN [o EXCEPT !.res.op = "DELETE",
               !.res.status = IF o.res.threw THEN 0
                              ELSE IF o.res.ok THEN 200 ELSE 404]

\* callInternalApi("DELETE", "/api/todos/:id"): assigns todoService.todos, then save()
callInternalApiDelete(s, id, wok) ==
  LET i == findById(s.todos, id)
      r == [res("apiDELETE") EXCEPT !.id = id]
  IN IF i = 0 THEN [st |-> s, res |-> failWith(r, "not_found")]
     ELSE LET s1 == [s EXCEPT !.todos = SelectSeq(s.todos, LAMBDA t : t.id # id)]
              s2 == save(s1, wok)
          IN [st |-> s2,
              res |-> IF wok THEN okTodo(r, s.todos[i], 1) ELSE thrown(r)]

\* the DELETE branch of the earlier copy of the router
variantRouteDelete(s, id, wok) ==
  LET i == findById(s.todos, id)
      r == [res("variantDELETE") EXCEPT !.id = id]
  IN IF i = 0
     THEN [st |-> s, res |-> [failWith(r, "not_found") EXCEPT !.status = 404]]
     ELSE LET s1 == [s EXCEPT !.todos = SelectSeq(s.todos, LAMBDA t : t.id # id)]
              s2 == save(s1, wok)
          IN [st |-> s2,
              res |-> IF wok
                      THEN [okTodo(r, s.todos[i], 1) EXCEPT !.status = 200]
                      ELSE thrown(r)]

\* POST <apiBase>: the title is trimmed and an empty one is refused
routeAdd(s, title, wok) ==
  LET r == [res("POSTadd") EXCEPT !.title = title]
      t == trim(title)
  IN IF t = <<>>
     THEN [st |-> s, res |-> [failWith(r, "missing_title") EXCEPT !.status = 400]]
     ELSE LET o == add(s, t, wok)
          IN [st |-> o.st,
              res |-> [o.res EXCEPT !.op = "POSTadd", !.title = title,
                                    !.status = IF o.res.ok THEN 201 ELSE 400]]

\* POST <apiBase>/complete-by-title
routeCompleteByTitle(s, title, wok) ==
  LET r == [res("POSTtitle") EXCEPT !.title = title]
      searchTitle == trim(title)
  IN IF searchTitle = <<>>
     THEN [st |-> s, res |-> [failWith(r, "missing_title") EXCEPT !.status = 400]]
     ELSE LET o == completeByTitle(s, searchTitle, wok)
          IN [st |-> o.st,
              res |-> [o.res EXCEPT !.op = "POSTtitle", !.title = title,
                                    !.status = IF o.res.ok THEN 200 ELSE 400]]

\* ------------------------------------------- callInternalApi (server.js)
\* a result {ok: true, ..., todos: list()}: hasTodos says the key is there
withTodos(o) ==
  [st |-> o.st,
   res |-> IF o.res.ok
           THEN [o.res EXCEPT !.hasTodos = TRUE, !.tasks = o.st.todos]
           ELSE o.res]

\* callInternalApi("GET", "/api/todos")
callInternalApiGet(s) ==
  withTodos([st |-> s, res |-> [res("apiGET") EXCEPT !.ok = TRUE]])

\* callInternalApi("POST", "/api/todos", {title})
callInternalApiPost(s, title, wok) ==
  LET t == trim(title)
  IN IF t = <<>>
     THEN [st |-> s, res |-> failWith(res("apiPOST"), "missing_title")]
     ELSE withTodos(add(s, t, wok))

\* callInternalApi("POST", "/api/todos/complete-by-index", {index})
callInternalApiCompleteByIndex(s, index, wok) ==
  IF index < 1
  THEN [st |-> s, res |-> failWith(res("apiPOSTindex"), "invalid_index")]
  ELSE withTodos(completeByIndex(s, index, wok))

\* callInternalApi("POST", "/api/todos/complete-by-title", {title})
callInternalApiCompleteByTitle(s, title, wok) ==
  LET searchTitle == trim(title)
  IN IF searchTitle = <<>>
     THEN [st |-> s, res |-> failWith(res("apiPOSTtitle"), "missing_title")]
     ELSE withTodos(completeByTitle(s, searchTitle, wok))

\* callInternalApi("PUT", "/api/todos/:id")
callInternalApiPut(s, id, wok) == withTodos(completeById(s, id, wok))

\* ------------------------------------------- MCP tools (mcp/todoTools.js)
\* replyWithTodos(message, tasks): what structuredContent.tasks carries
replyWithTodos(o, op, title, tasks) ==
  [st |-> o.st,
   res |-> [o.res EXCEPT !.op = op, !.title = title,
                         !.tasks = IF o.res.threw THEN <<>> ELSE tasks]]

\* result.todos ?? []
todosOrNone(o) == IF o.res.hasTodos THEN o.res.tasks ELSE <<>>

toolAddTodo(s, title, wok) ==
  LET o == callInternalApiPost(s, trim(title), wok)
  IN replyWithTodos(o, "add_todo", title, todosOrNone(o))

toolCompleteTodo(s, id, wok) ==
  LET o == callInternalApiPut(s, id, wok)
  IN replyWithTodos(o, "complete_todo", <<>>, todosOrNone(o))

toolListTodos(s) ==
  LET o == callInternalApiGet(s)
  IN replyWithTodos(o, "list_todos", <<>>, o.res.tasks)

toolCompleteTodoByIndex(s, index, wok) ==
  LET o == callInternalApiCompleteByIndex(s, index, wok)
  IN replyWithTodos(o, "complete_todo_by_index", <<>>,
                    IF o.res.ok THEN o.res.tasks
                    ELSE callInternalApiGet(o.st).res.tasks)

toolCompleteTodoByTitle(s, title, wok) ==
  LET searchTitle == trim(title)
  IN IF searchTitle = <<>>
     THEN replyWithTodos([st |-> s, res |-> failWith(NoRes, "missing_title")],
                         "complete_todo_by_title", title,
                         callInternalApiGet(s).res.tasks)
     ELSE LET o == callInternalApiCompleteByTitle(s, searchTitle, wok)
          IN replyWithTodos(o, "complete_todo_by_title", title,
                            IF o.res.ok THEN o.res.tasks
                            ELSE callInternalApiGet(o.st).res.tasks)

\* ------------------- MCP tools that call the store directly (other copy)
variantAddTodo(s, title, wok) ==
  LET o == add(s, trim(title), wok)
  IN replyWithTodos(o, "variant_add_todo", title, o.st.todos)

variantCompleteTodo(s, id, wok) ==
  LET o == completeById(s, id, wok)
  IN replyWithTodos(o, "variant_complete_todo", <<>>, o.st.todos)

variantListTodos(s) ==
  replyWithTodos([st |-> s, res |-> [NoRes EXCEPT !.ok = TRUE]],
                 "variant_list_todos", <<>>, s.todos)

variantCompleteTodoByIndex(s, index, wok) ==
  LET o == completeByIndex(s, index, wok)
  IN replyWithTodos(o, "variant_complete_todo_by_index", <<>>, o.st.todos)

variantCompleteTodoByTitle(s, title, wok) ==
  LET o == completeByTitle(s, trim(title), wok)
  IN replyWithTodos(o, "variant_complete_todo_by_title", title, o.st.todos)

variantDeleteCompleted(s, wok) ==
  LET o == deleteCompleted(s, wok)
  IN replyWithTodos(o, "variant_delete_completed", <<>>, o.st.todos)

\* --------------------------------------------------------------- actions
\* add, and the requests that end in add
AddOps == {"add", "POSTadd", "add_todo", "variant_add_todo"}

Apply(o) ==
  /\ todos' = o.st.todos
  /\ nextId' = o.st.nextId
  /\ file' = o.st.file
  /\ prev' = St
  /\ last' = o.res
  /\ clean' = (clean /\ ~o.res.threw)
  /\ repeatOf' = IF /\ last.op \in {"completeById", "PUT"}
                    /\ last.ok
                    /\ o.res.op = last.op
                    /\ o.res.id = last.id
                 THEN last.todo
                 ELSE <<>>
  /\ gone' = IF o.res.op \in {"deleteById", "DELETE"} /\ o.res.ok
             THEN gone \cup {o.res.id}
             ELSE gone
  /\ UNCHANGED hist
  /\ issued' = IF o.res.op \in AddOps /\ o.res.ok
               THEN Append(issued, o.res.todo[1].id)
               ELSE issued

\* a request slot: phase is "idle", "writing" (suspended at the await) or "done"
IdleCall ==
  [phase |-> "idle", res |-> NoRes, w |-> NoWrite, todo |-> <<>>,
   deleted |-> <<>>, base |-> <<>>, with |-> {}, seq |-> 0]

Init ==
  /\ up = "none"
  /\ todos = <<>>
  /\ nextId = 1
  /\ file \in InitialFiles
  /\ origin = "none"
  /\ minted = {}
  /\ returned = <<>>
  /\ prev = [todos |-> <<>>, nextId |-> 1, file |-> file]
  /\ last = NoRes
  /\ clean = TRUE
  /\ repeatOf = <<>>
  /\ gone = {}
  /\ hist = <<>>
  /\ issued = <<>>
  /\ calls = [c \in 1..MaxCalls |-> IdleCall]

Add(title, wok) ==
  /\ up = "open"
  /\ nextId < MaxNextId
  /\ Apply(add(St, title, wok))
  /\ minted' = minted \cup {nextId}
  /\ returned' = IF wok THEN Append(returned, TodoId(nextId)) ELSE returned
  /\ UNCHANGED <<up, origin, calls>>


Keep == UNCHANGED <<up, origin, minted, returned, calls>>

\* no request is in flight
Quiet == \A c \in 1..MaxCalls : calls[c].phase = "idle"

Create(wok) ==
  /\ up = "none"
  /\ LET o == create(file, wok)
     IN /\ up' = o.up
        /\ todos' = o.st.todos
        /\ nextId' = o.st.nextId
        /\ file' = o.st.file
        /\ origin' = o.origin
  /\ minted' = {}
  /\ returned' = <<>>
  /\ prev' = St
  /\ last' = [res("create") EXCEPT !.ok = (up' = "open"), !.threw = (up' = "failed")]
  /\ clean' = TRUE
  /\ repeatOf' = <<>>
  /\ UNCHANGED <<gone, hist, issued>>
  /\ UNCHANGED calls

\* the process ends; the file is what remains
Restart ==
  /\ up # "none"
  /\ Quiet
  /\ up' = "none"
  /\ todos' = <<>>
  /\ nextId' = 1
  /\ origin' = "none"
  /\ minted' = {}
  /\ returned' = <<>>
  /\ prev' = St
  /\ last' = res("restart")
  /\ clean' = TRUE
  /\ repeatOf' = <<>>
  /\ UNCHANGED <<gone, hist, issued>>
  /\ UNCHANGED <<file, calls>>

CompleteById(n, wok) ==
  /\ up = "open"
  /\ Apply(completeById(St, TodoId(n), wok))
  /\ Keep

CompleteByIndex(i, wok) ==
  /\ up = "open"
  /\ Apply(completeByIndex(St, i, wok))
  /\ Keep

CompleteByTitle(q, wok) ==
  /\ up = "open"
  /\ Apply(completeByTitle(St, q, wok))
  /\ Keep

DeleteById(n, wok) ==
  /\ up = "open"
  /\ Apply(deleteById(St, TodoId(n), wok))
  /\ Keep

DeleteCompleted(wok) ==
  /\ up = "open"
  /\ Apply(deleteCompleted(St, wok))
  /\ Keep

RoutePut(n, wok) ==
  /\ up = "open"
  /\ Apply(routePut(St, TodoId(n), wok))
  /\ Keep

RouteCompleteByIndex(body, wok) ==
  /\ up = "open"
  /\ Apply(routeCompleteByIndex(St, body, wok))
  /\ Keep

RouteDelete(n, wok) ==
  /\ up = "open"
  /\ Apply(routeDelete(St, TodoId(n), wok))
  /\ Keep

ApiDelete(n, wok) ==
  /\ up = "open"
  /\ Apply(callInternalApiDelete(St, TodoId(n), wok))
  /\ Keep

VariantRouteDelete(n, wok) ==
  /\ up = "open"
  /\ Apply(variantRouteDelete(St, TodoId(n), wok))
  /\ Keep

Next ==
  \/ \E wok \in BOOLEAN : Create(wok)
  \/ Restart
  \/ \E t \in Titles, wok \in BOOLEAN : Add(t, wok)
  \/ \E n \in IdNumbers, wok \in BOOLEAN : CompleteById(n, wok)
  \/ \E i \in Indexes, wok \in BOOLEAN : CompleteByIndex(i, wok)
  \/ \E q \in Queries, wok \in BOOLEAN : CompleteByTitle(q, wok)
  \/ \E n \in IdNumbers, wok \in BOOLEAN : DeleteById(n, wok)
  \/ \E wok \in BOOLEAN : DeleteCompleted(wok)
  \/ \E n \in IdNumbers, wok \in BOOLEAN : RoutePut(n, wok)
  \/ \E n \in IdNumbers, wok \in BOOLEAN : RouteDelete(n, wok)
  \/ \E body \in IndexBodies, wok \in BOOLEAN : RouteCompleteByIndex(body, wok)

Spec == Init /\ [][Next]_vars

\* ------------------------------------------------- overlapping requests
Slots == 1..MaxCalls

Writing(c) == calls[c].phase = "writing"

\* the synchronous part of a call runs in the lowest free slot; a call that
\* returns without writing leaves no trace, one that writes suspends at the await
Start(c, b) ==
  /\ up = "open"
  /\ calls[c].phase = "idle"
  /\ \A d \in 1..(c - 1) : calls[d].phase # "idle"
  /\ nextId' = b.st.nextId
  /\ calls' = IF b.done THEN calls
              ELSE [calls EXCEPT ![c] =
                      [phase |-> "writing", res |-> b.res, w |-> b.w,
                       todo |-> b.todo, deleted |-> b.deleted, base |-> todos,
                       with |-> {d \in Slots : Writing(d)}, seq |-> 0]]
  /\ UNCHANGED <<up, todos, file, origin, returned, prev, last, clean, repeatOf, gone, hist, issued>>

StartAdd(c, title) ==
  /\ nextId < MaxNextId
  /\ Start(c, addBegin(St, title))
  /\ minted' = minted \cup {nextId}

StartCompleteById(c, n) ==
  /\ Start(c, completeByIdBegin(St, TodoId(n)))
  /\ UNCHANGED minted

StartCompleteByIndex(c, i) ==
  /\ Start(c, completeByIndexBegin(St, i))
  /\ UNCHANGED minted

StartCompleteByTitle(c, q) ==
  /\ Start(c, completeByTitleBegin(St, q))
  /\ UNCHANGED minted

StartDeleteById(c, n) ==
  /\ Start(c, deleteByIdBegin(St, TodoId(n)))
  /\ UNCHANGED minted

StartDeleteCompleted(c) ==
  /\ Start(c, deleteCompletedBegin(St))
  /\ UNCHANGED minted

\* writeFile settles for one suspended call and its continuation runs
Finish(c, wok) ==
  /\ Writing(c)
  /\ LET o == resume(St, calls[c], wok)
         n == Cardinality({d \in Slots : calls[d].seq > 0})
     IN /\ todos' = o.st.todos
        /\ file' = o.st.file
        /\ calls' = [calls EXCEPT ![c].phase = "done", ![c].res = o.res,
                                  ![c].seq = n + 1]
        /\ returned' = IF o.res.op = "add" /\ o.res.ok
                       THEN Append(returned, o.res.todo[1].id)
                       ELSE returned
  /\ clean' = (clean /\ wok)
  /\ UNCHANGED <<up, nextId, origin, minted, prev, last, repeatOf, gone, hist, issued>>

NextConc ==
  \/ \E wok \in BOOLEAN : Create(wok)
  \/ \E c \in Slots, t \in Titles : StartAdd(c, t)
  \/ \E c \in Slots, n \in IdNumbers : StartCompleteById(c, n)
  \/ \E c \in Slots, i \in Indexes : StartCompleteByIndex(c, i)
  \/ \E c \in Slots, q \in Queries : StartCompleteByTitle(c, q)
  \/ \E c \in Slots, n \in IdNumbers : StartDeleteById(c, n)
  \/ \E c \in Slots : StartDeleteCompleted(c)
  \/ \E c \in Slots, wok \in BOOLEAN : Finish(c, wok)

InitConc ==
  /\ up = "none"
  /\ todos = <<>>
  /\ nextId = 1
  /\ file \in ConcFiles
  /\ origin = "none"
  /\ minted = {}
  /\ returned = <<>>
  /\ prev = [todos |-> <<>>, nextId |-> 1, file |-> file]
  /\ last = NoRes
  /\ clean = TRUE
  /\ repeatOf = <<>>
  /\ gone = {}
  /\ hist = <<>>
  /\ issued = <<>>
  /\ calls = [c \in 1..MaxCalls |-> IdleCall]

SpecConc == InitConc /\ [][NextConc]_vars

\* the store together with the handlers that delete without deleteById
NextApi ==
  \/ Next
  \/ \E n \in IdNumbers, wok \in BOOLEAN : ApiDelete(n, wok)
  \/ \E n \in IdNumbers, wok \in BOOLEAN : VariantRouteDelete(n, wok)

SpecApi == Init /\ [][NextApi]_vars

\* ------------------------------------- requests through REST and MCP
Handle(o) ==
  /\ up = "open"
  /\ Apply(o)
  /\ Keep

\* an add request goes through only while the counter is below its bound
AddAllowed(title) == trim(title) = <<>> \/ nextId < MaxNextId

RouteAdd(title, wok) ==
  /\ AddAllowed(title)
  /\ Handle(routeAdd(St, title, wok))

RouteCompleteByTitle(title, wok) == Handle(routeCompleteByTitle(St, title, wok))

ToolAddTodo(title, wok) ==
  /\ AddAllowed(title)
  /\ Handle(toolAddTodo(St, title, wok))

ToolCompleteTodo(n, wok) == Handle(toolCompleteTodo(St, TodoId(n), wok))

ToolListTodos == Handle(toolListTodos(St))

ToolCompleteTodoByIndex(i, wok) == Handle(toolCompleteTodoByIndex(St, i, wok))

ToolCompleteTodoByTitle(title, wok) ==
  Handle(toolCompleteTodoByTitle(St, title, wok))

VariantAddTodo(title, wok) ==
  /\ nextId < MaxNextId
  /\ Handle(variantAddTodo(St, title, wok))

VariantCompleteTodo(n, wok) == Handle(variantCompleteTodo(St, TodoId(n), wok))

VariantListTodos == Handle(variantListTodos(St))

VariantCompleteTodoByIndex(i, wok) ==
  Handle(variantCompleteTodoByIndex(St, i, wok))

VariantCompleteTodoByTitle(title, wok) ==
  Handle(variantCompleteTodoByTitle(St, title, wok))

VariantDeleteCompleted(wok) == Handle(variantDeleteCompleted(St, wok))

\* z.number().int().min(1)
ToolIndexes == { i \in Indexes : i >= 1 }

\* the REST routes and the tools of mcp/todoTools.js
NextLive ==
  \/ \E wok \in BOOLEAN : Create(wok)
  \/ Restart
  \/ \E t \in BodyTitles, wok \in BOOLEAN : RouteAdd(t, wok)
  \/ \E t \in BodyTitles, wok \in BOOLEAN : RouteCompleteByTitle(t, wok)
  \/ \E n \in IdNumbers, wok \in BOOLEAN : RouteDelete(n, wok)
  \/ \E t \in ToolTitles, wok \in BOOLEAN : ToolAddTodo(t, wok)
  \/ \E n \in IdNumbers, wok \in BOOLEAN : ToolCompleteTodo(n, wok)
  \/ ToolListTodos
  \/ \E i \in ToolIndexes, wok \in BOOLEAN : ToolCompleteTodoByIndex(i, wok)
  \/ \E t \in ToolTitles, wok \in BOOLEAN : ToolCompleteTodoByTitle(t, wok)

\* together with the tools that call the store directly
NextTools ==
  \/ NextLive
  \/ \E t \in ToolTitles, wok \in BOOLEAN : VariantAddTodo(t, wok)
  \/ \E n \in IdNumbers, wok \in BOOLEAN : VariantCompleteTodo(n, wok)
  \/ VariantListTodos
  \/ \E i \in ToolIndexes, wok \in BOOLEAN : VariantCompleteTodoByIndex(i, wok)
  \/ \E t \in ToolTitles, wok \in BOOLEAN : VariantCompleteTodoByTitle(t, wok)
  \/ \E wok \in BOOLEAN : VariantDeleteCompleted(wok)

SpecTools == Init /\ [][NextTools]_vars

\* ------------------------------------------------ the worked example
\* a call of the store whose write succeeds, appended to the history
Replay(call, o) ==
  /\ up = "open"
  /\ Len(hist) < Len(Scenario)
  /\ todos' = o.st.todos
  /\ nextId' = o.st.nextId
  /\ file' = o.st.file
  /\ prev' = St
  /\ last' = o.res
  /\ hist' = Append(hist, call)
  /\ UNCHANGED <<up, origin, minted, returned, clean, repeatOf, gone, issued,
                 calls>>

ReplayAdd(title) ==
  /\ nextId < MaxNextId
  /\ Replay(<<"add", title>>, add(St, title, TRUE))

ReplayCompleteByIndex(i) ==
  Replay(<<"completeByIndex", i>>, completeByIndex(St, i, TRUE))

ReplayCompleteByTitle(q) ==
  Replay(<<"completeByTitle", q>>, completeByTitle(St, q, TRUE))

ReplayDeleteCompleted ==
  Replay(<<"deleteCompleted">>, deleteCompleted(St, TRUE))

NextReplay ==
  \/ Create(TRUE)
  \/ \E t \in {BuyMilk, WalkDog} : ReplayAdd(t)
  \/ \E i \in 1..2 : ReplayCompleteByIndex(i)
  \/ \E q \in {Dog, WalkDog} : ReplayCompleteByTitle(q)
  \/ ReplayDeleteCompleted

\* no data file at the start
InitReplay ==
  /\ Init
  /\ file = AbsentFile

SpecReplay == InitReplay /\ [][NextReplay]_vars

\* ------------------------------------------------------------ properties
StoreOps ==
  {"add", "completeById", "completeByIndex", "completeByTitle",
   "deleteById", "deleteCompleted"}

WriteFailed == last.reason = "write_failed"

Ids(ts) == {ts[i].id : i \in 1..Len(ts)}

\* C1: when the write of a mutating call of the store fails, the call fails
\* (it rejects, it does not return a success result) and list() returns
\* exactly the sequence it returned before the call.
C1_FailedWriteKeepsList ==
  (last.op \in StoreOps /\ WriteFailed) =>
     /\ last.threw
     /\ ~last.ok
     /\ todos = prev.todos

\* a delete, a completion or an add whose write failed on a non-empty store
C1_Witness ==
  /\ last.op \in {"deleteById", "deleteCompleted", "completeByTitle"}
  /\ WriteFailed
  /\ todos # <<>>

\* the file holds exactly the in-memory sequence and counter
FileEqualsMemory ==
  /\ file.kind = "json"
  /\ file.todosIsArray
  /\ file.todos = todos
  /\ file.nextIdKind = "int"
  /\ file.nextId = nextId

\* C2: in sequential execution of a store created empty, right after any
\* mutating call returns successfully (a no-op included, earlier failed
\* writes included) the file holds the in-memory sequence and nextId.
C2_FileEqualsMemoryAfterSuccess ==
  (origin = "empty" /\ last.op \in StoreOps /\ last.ok) => FileEqualsMemory

\* C3: when the write of a mutating call fails, the sequence and nextId both
\* have the value they had before the call.
C3_FailedWriteKeepsState ==
  (last.op \in StoreOps /\ WriteFailed) =>
     /\ todos = prev.todos
     /\ nextId = prev.nextId

\* C4: in a store created empty every id returned by add is "todo-N" with N
\* strictly greater than the N of every earlier returned id, and nextId is
\* strictly greater than every numeric suffix this instance has minted.
C4_IdsStrictlyIncrease ==
  origin = "empty" =>
     /\ \A i \in 1..Len(returned) : returned[i] = TodoId(Suffix(returned[i]))
     /\ \A i, j \in 1..Len(returned) :
          i < j => Suffix(returned[i]) < Suffix(returned[j])
     /\ \A n \in minted : n < nextId
     /\ \A i \in 1..Len(returned) : Suffix(returned[i]) \in minted

\* two adds returned, and the record of the first one has been deleted since
C4_Witness ==
  /\ origin = "empty"
  /\ Len(returned) >= 2
  /\ returned[1] \notin Ids(todos)
  /\ returned[2] \in Ids(todos)

\* C5: the ids in the in-memory sequence are pairwise distinct, also in a
\* store opened from a file with distinct ids and no usable nextId.
C5_IdsDistinct ==
  up = "open" =>
     \A i, j \in 1..Len(todos) : i # j => todos[i].id # todos[j].id

\* C6: in a state reached through calls none of whose writes failed, opening
\* a new store on the file yields the same sequence and the same nextId.
C6_RoundTrip ==
  (up = "open" /\ clean) =>
     LET o == create(file, TRUE)
     IN /\ o.up = "open"
        /\ o.st.todos = todos
        /\ o.st.nextId = nextId

\* a store that has added, completed and deleted, all written
C6_Witness ==
  /\ up = "open"
  /\ clean
  /\ origin = "empty"
  /\ last.op = "deleteById"
  /\ last.ok
  /\ Len(todos) = 1
  /\ todos[1].completed

DeleteOps == {"DELETE", "apiDELETE", "variantDELETE"}

\* C7: a delete requested through the transport layer never changes the
\* sequence before its write succeeded: after a failed write the record is
\* still in list().
C7_DeleteWritesBeforeCommit ==
  (last.op \in DeleteOps /\ WriteFailed) => todos = prev.todos

\* what a call changed, read off the sequence it started from and its candidate
Done(ts) == {ts[i].id : i \in {k \in 1..Len(ts) : ts[k].completed}}

Changes(base, cand) ==
  {<<"add", i>> : i \in Ids(cand) \ Ids(base)}
    \cup {<<"del", i>> : i \in Ids(base) \ Ids(cand)}
    \cup {<<"done", i>> : i \in (Done(cand) \ Done(base)) \cap Ids(base)}

Reflected(ch, ts) ==
  CASE ch[1] = "add" -> ch[2] \in Ids(ts)
    [] ch[1] = "del" -> ch[2] \notin Ids(ts)
    [] OTHER -> ch[2] \in Done(ts)

ChangesOf(c) == Changes(calls[c].base, calls[c].w.newTodos)

WroteOk(c) ==
  /\ calls[c].phase = "done"
  /\ calls[c].res.ok
  /\ calls[c].res.writes = 1

\* c and d overlapped, both writes succeeded, and the write of c completed last
LastOfOverlap(c, d) ==
  /\ c # d
  /\ WroteOk(c)
  /\ WroteOk(d)
  /\ d \in calls[c].with \/ c \in calls[d].with
  /\ calls[c].seq > calls[d].seq
  /\ \A e \in Slots : calls[e].seq <= calls[c].seq

\* C8 as stated: after two overlapping calls have both written, the sequence is
\* the candidate of the call whose write completed last and the effect of the
\* other call is absent from list().
C8_OtherEffectAbsent ==
  \A c, d \in Slots :
    (LastOfOverlap(c, d) /\ \A e \in Slots \ {c, d} : calls[e].phase = "idle") =>
       /\ todos = calls[c].w.newTodos
       /\ \A ch \in ChangesOf(d) : ~Reflected(ch, todos)

\* no call other than c and d has been suspended at a write
OnlyTwo(c, d) == \A e \in Slots \ {c, d} : calls[e].phase = "idle"

\* C8 amended: the sequence is the candidate of the call whose write completed
\* last; when only the two calls were in flight both read the same sequence, a
\* record the other call added is not in list(), and any other change of the
\* other call is in list() only when the last call made that same change itself.
C8_LaterWriteWins ==
  \A c, d \in Slots :
    LastOfOverlap(c, d) =>
       /\ todos = calls[c].w.newTodos
       /\ OnlyTwo(c, d) =>
            /\ calls[c].base = calls[d].base
            /\ \A ch \in ChangesOf(d) :
                 /\ Reflected(ch, todos) => ch \in ChangesOf(c)
                 /\ ch[1] = "add" => ~Reflected(ch, todos)

\* two overlapping adds both returned success and the earlier one's record is lost
C8_Witness ==
  \E c, d \in Slots :
    /\ LastOfOverlap(c, d)
    /\ calls[c].res.op = "add"
    /\ calls[d].res.op = "add"
    /\ calls[d].res.todo[1].id \notin Ids(todos)
    /\ calls[c].res.todo[1].id \in Ids(todos)

CompleteOps == {"completeById", "PUT"}

\* C9: completeById(id) (and PUT /api/todos/:id) called again right after it
\* succeeded on that id succeeds again with the same, completed record, leaves
\* sequence, nextId and file as they were and performs no write.
C9_CompleteByIdIdempotent ==
  repeatOf # <<>> =>
     /\ last.ok
     /\ last.todo = repeatOf
     /\ last.todo[1].completed
     /\ last.writes = 0
     /\ todos = prev.todos
     /\ nextId = prev.nextId
     /\ file = prev.file
     /\ last.op = "PUT" => last.status = 200

\* the second of two completions of the same id, through the store directly
C9_Witness ==
  /\ repeatOf # <<>>
  /\ last.op = "completeById"
  /\ last.ok
  /\ Len(todos) >= 2

\* C10: completeByTitle(query) completes the first record in display order
\* that is incomplete and whose lower-cased title contains the lower-cased
\* query, changes no other record, nor the order, nor nextId; with no such
\* record it fails with not_found and writes nothing.
C10_CompleteByTitleFirstMatch ==
  (last.op = "completeByTitle" /\ ~WriteFailed) =>
     LET ts == prev.todos
         q == toLowerCase(last.title)
         Match(i) == ~ts[i].completed /\ includes(toLowerCase(ts[i].title), q)
     IN IF \E i \in 1..Len(ts) : Match(i)
        THEN LET m == CHOOSE i \in 1..Len(ts) :
                        Match(i) /\ \A j \in 1..(i - 1) : ~Match(j)
             IN /\ last.ok
                /\ todos = [ts EXCEPT ![m].completed = TRUE]
                /\ nextId = prev.nextId
        ELSE /\ ~last.ok
             /\ last.reason = "not_found"
             /\ last.writes = 0
             /\ todos = ts
             /\ nextId = prev.nextId
             /\ file = prev.file

\* the same statement for stores whose ids are pairwise distinct
C10_WhenIdsDistinct ==
  (\A i, j \in 1..Len(prev.todos) :
      i # j => prev.todos[i].id # prev.todos[j].id)
    => C10_CompleteByTitleFirstMatch

IdsDistinct(ts) == \A i, j \in 1..Len(ts) : i # j => ts[i].id # ts[j].id

Unchanged == todos = prev.todos /\ nextId = prev.nextId /\ file = prev.file

\* positions, in display order, of the incomplete records whose lower-cased
\* title contains the lower-cased query
Matching(ts, query) ==
  SelectSeq([i \in 1..Len(ts) |-> i],
            LAMBDA i : /\ ~ts[i].completed
                       /\ includes(toLowerCase(ts[i].title), toLowerCase(query)))

\* C11: each successful completeByTitle(query) completes the first of the
\* records that are still incomplete and match, and leaves the others
\* incomplete, so that k successive calls complete the first k matches in
\* display order; when none is left the call fails with not_found and changes
\* nothing.
C11_CompleteByTitleProgress ==
  (last.op = "completeByTitle" /\ ~WriteFailed) =>
     LET before == Matching(prev.todos, last.title)
     IN IF before = <<>>
        THEN ~last.ok /\ last.reason = "not_found" /\ Unchanged
        ELSE /\ last.ok
             /\ todos[Head(before)].completed
             /\ Matching(todos, last.title) = Tail(before)

\* the same statement for stores whose ids are pairwise distinct
C11_WhenIdsDistinct == IdsDistinct(prev.todos) => C11_CompleteByTitleProgress

\* C12: completeByIndex with an integer index outside [1, length] fails with
\* invalid_index, writes nothing and changes nothing; POST complete-by-index
\* with a non-integer, non-positive or out-of-range index answers 400 and
\* leaves the store unchanged.
C12_InvalidIndexRejected ==
  /\ (last.op = "completeByIndex"
        /\ (last.index < 1 \/ last.index > Len(prev.todos))) =>
       /\ ~last.ok
       /\ ~last.threw
       /\ last.reason = "invalid_index"
       /\ last.writes = 0
       /\ Unchanged
  /\ (last.op = "POSTindex"
        /\ (~last.intIndex \/ last.index < 1 \/ last.index > Len(prev.todos))) =>
       /\ last.status = 400
       /\ last.writes = 0
       /\ Unchanged

\* index 0 on a store that holds an incomplete first record
C12_Witness ==
  /\ last.op = "completeByIndex"
  /\ last.index = 0
  /\ Len(todos) >= 1
  /\ ~todos[1].completed

\* C13: completeByIndex(i) with i in [1, length] leaves sequence, nextId and
\* file as completeById(id of the i-th record) would, returns the same record
\* and the index i, and writes nothing when the i-th record is completed.
C13_ByIndexLikeById ==
  (last.op = "completeByIndex"
     /\ last.index >= 1 /\ last.index <= Len(prev.todos)) =>
     LET o == completeById(prev, prev.todos[last.index].id, ~WriteFailed)
     IN /\ todos = o.st.todos
        /\ nextId = o.st.nextId
        /\ file = o.st.file
        /\ last.ok = o.res.ok
        /\ last.todo = o.res.todo
        /\ last.writes = o.res.writes
        /\ prev.todos[last.index].completed => (last.ok /\ last.writes = 0)

\* the same statement for stores whose ids are pairwise distinct
C13_WhenIdsDistinct == IdsDistinct(prev.todos) => C13_ByIndexLikeById

\* the sequence without its i-th record
RemoveAt(ts, i) == SubSeq(ts, 1, i - 1) \o SubSeq(ts, i + 1, Len(ts))

\* C14: a successful deleteById(id) leaves the previous sequence minus exactly
\* the record with that id, leaves nextId unchanged and returns the record as
\* it was before the deletion; and an id deleted this way is in no later
\* list(), whatever operations follow.
C14_DeletedIdStaysGone ==
  /\ (last.op = "deleteById" /\ last.ok) =>
       /\ \E i \in 1..Len(prev.todos) :
            /\ prev.todos[i].id = last.id
            /\ todos = RemoveAt(prev.todos, i)
            /\ last.todo = <<prev.todos[i]>>
       /\ nextId = prev.nextId
  /\ \A id \in gone : id \notin Ids(todos)

\* the same statement for a store that was created without a data file
C14_WhenCreatedEmpty == origin = "empty" => C14_DeletedIdStaysGone

\* C15: completeById and deleteById with an id that is not in the sequence
\* (empty store and earlier-deleted id included) fail with not_found, write
\* nothing and leave sequence, nextId and file unchanged.
C15_MissingIdNotFound ==
  (last.op \in {"completeById", "deleteById"}
     /\ last.id \notin Ids(prev.todos)) =>
     /\ ~last.ok
     /\ ~last.threw
     /\ last.reason = "not_found"
     /\ last.writes = 0
     /\ Unchanged

\* deleteById of an id that an earlier deleteById removed
C15_Witness ==
  /\ last.op = "deleteById"
  /\ last.id \in gone
  /\ last.id \notin Ids(prev.todos)
  /\ ~last.ok

Completed(ts) == SelectSeq(ts, LAMBDA t : t.completed)

Incomplete(ts) == SelectSeq(ts, LAMBDA t : ~t.completed)

\* C16: a successful deleteCompleted removes exactly the records that are
\* completed when it is called and reports them as deleted; the sequence
\* afterwards is the previous one restricted to the incomplete records, in
\* their order, and nextId is unchanged.
C16_DeleteCompletedRemovesCompleted ==
  (last.op = "deleteCompleted" /\ last.ok) =>
     /\ last.deleted = Completed(prev.todos)
     /\ todos = Incomplete(prev.todos)
     /\ nextId = prev.nextId

\* a call that removed a record and kept another
C16_Witness ==
  /\ last.op = "deleteCompleted"
  /\ last.ok
  /\ Len(last.deleted) >= 1
  /\ Len(todos) >= 1

\* C17 as stated: every deleteCompleted call whose write does not fail
\* persists exactly once and reports success, also when nothing is completed.
C17_AlwaysWritesOnce ==
  (last.op = "deleteCompleted" /\ ~WriteFailed) =>
     last.ok /\ last.writes = 1

\* C17: deleteCompleted writes exactly once when at least one record is
\* completed, and then succeeds unless that write fails; when no record is
\* completed it writes nothing, reports success with an empty removed set
\* and leaves sequence, nextId and file unchanged.
C17_WritesOnceUnlessNoneCompleted ==
  last.op = "deleteCompleted" =>
     IF Completed(prev.todos) # <<>>
     THEN \/ last.ok /\ last.writes = 1 /\ file = stringify(todos, nextId)
          \/ WriteFailed /\ ~last.ok /\ Unchanged
     ELSE /\ last.ok
          /\ last.writes = 0
          /\ last.deleted = <<>>
          /\ Unchanged

\* a call on a store that holds records, none of them completed
C17_Witness ==
  /\ last.op = "deleteCompleted"
  /\ last.ok
  /\ last.writes = 0
  /\ Len(todos) >= 1

\* C18 as stated: opening a file that exists but is not valid JSON succeeds
\* with an empty sequence and nextId = 1.
C18_GarbageOpensEmpty ==
  (last.op = "create" /\ prev.file.kind = "garbage") =>
     up = "open" /\ todos = <<>> /\ nextId = 1

\* C18: opening a file that exists but is not valid JSON fails: create
\* rejects, no store is returned and the file is left as it was.
C18_GarbageFailsOpen ==
  (last.op = "create" /\ prev.file.kind = "garbage") =>
     up = "failed" /\ last.threw /\ ~last.ok /\ file = prev.file

C18_Witness ==
  /\ last.op = "create"
  /\ prev.file.kind = "garbage"
  /\ up = "failed"

\* C19: opening a file that holds a JSON object gives the file's todos in
\* order when todos is an array and the empty sequence otherwise, gives the
\* file's nextId when it is an integer and length + 1 otherwise, and writes
\* nothing.
C19_OpenExistingFile ==
  (last.op = "create" /\ prev.file.kind = "json") =>
     /\ up = "open"
     /\ todos = (IF prev.file.todosIsArray THEN prev.file.todos ELSE <<>>)
     /\ nextId = (IF prev.file.nextIdKind = "int"
                  THEN prev.file.nextId
                  ELSE Len(todos) + 1)
     /\ file = prev.file

\* a file whose integer nextId differs from length + 1
C19_Witness ==
  /\ last.op = "create"
  /\ prev.file.kind = "json"
  /\ prev.file.nextIdKind = "int"
  /\ prev.file.todosIsArray
  /\ nextId # Len(todos) + 1

\* C20: opening when no file exists gives a store with the empty sequence and
\* nextId = 1 and writes {todos: [], nextId: 1} before it returns; when that
\* write fails the open fails and no store is returned.
C20_OpenWithoutFile ==
  (last.op = "create" /\ prev.file.kind = "absent") =>
     IF last.ok
     THEN /\ up = "open"
          /\ todos = <<>>
          /\ nextId = 1
          /\ file = stringify(<<>>, 1)
     ELSE /\ up = "failed"
          /\ last.threw
          /\ file = prev.file

\* the first write failed
C20_Witness ==
  /\ last.op = "create"
  /\ prev.file.kind = "absent"
  /\ up = "failed"

\* C21: when reading the backing file fails with an error other than
\* file-not-found, open fails: no store is returned and the file is neither
\* created nor overwritten.
C21_ReadErrorFailsOpen ==
  (last.op = "create" /\ prev.file.kind = "unreadable") =>
     /\ up = "failed"
     /\ last.threw
     /\ ~last.ok
     /\ file = prev.file

C21_Witness ==
  /\ last.op = "create"
  /\ prev.file.kind = "unreadable"
  /\ up = "failed"

\* the records of ts at the positions in K, in order
Pick(ts, K) ==
  LET idx == SelectSeq([i \in 1..Len(ts) |-> i], LAMBDA i : i \in K)
  IN [j \in 1..Len(idx) |-> ts[idx[j]]]

\* new is old with no flag switched back: same ids and titles in the same
\* places, and whatever was completed still is
SameOrCompleted(old, new) ==
  /\ Len(new) = Len(old)
  /\ \A i \in 1..Len(old) :
       /\ new[i].id = old[i].id
       /\ new[i].title = old[i].title
       /\ old[i].completed => new[i].completed

\* after is some of the records of before, none of them switched back to
\* incomplete, possibly followed by one new record that is incomplete
OneWay(before, after) ==
  \E K \in SUBSET (1..Len(before)) :
     LET old == Pick(before, K)
     IN \/ SameOrCompleted(old, after)
        \/ /\ after # <<>>
           /\ ~after[Len(after)].completed
           /\ SameOrCompleted(old, SubSeq(after, 1, Len(after) - 1))

C24_AddAppends ==
  (last.op = "add" /\ last.ok) =>
     LET todo == MkTodo(prev.nextId, last.title, FALSE)
     IN /\ last.todo = <<todo>>
        /\ todos = Append(prev.todos, todo)
        /\ nextId = prev.nextId + 1

\* an add on a store that already holds a record
C24_Witness ==
  /\ last.op = "add"
  /\ last.ok
  /\ Len(todos) >= 2

Blank(title) == trim(title) = <<>>

AddRequests == {"POSTadd", "add_todo", "variant_add_todo"}

\* C23: when every add comes through POST <apiBase> or the add_todo tool,
\* every record in the store has a title that is neither empty nor blank, and
\* a request with a blank title is refused and leaves the store unchanged.
C23_TitlesNonBlank ==
  /\ up = "open" => \A i \in 1..Len(todos) : ~Blank(todos[i].title)
  /\ (last.op \in AddRequests /\ Blank(last.title)) =>
       ~last.ok /\ Unchanged

\* the same statement for the route and the tool of mcp/todoTools.js alone
C23_RouteAndInternalTool ==
  (last.op \in {"POSTadd", "add_todo"} /\ Blank(last.title)) =>
     ~last.ok /\ Unchanged

LiveToolOps ==
  {"add_todo", "complete_todo", "list_todos", "complete_todo_by_index",
   "complete_todo_by_title"}

VariantToolOps ==
  {"variant_add_todo", "variant_complete_todo", "variant_list_todos",
   "variant_complete_todo_by_index", "variant_complete_todo_by_title",
   "variant_delete_completed"}

\* C25: every tool response, on success and on failure alike, carries the
\* store's full current list in structuredContent.tasks.
C25_TasksIsFullList ==
  (last.op \in LiveToolOps \cup VariantToolOps /\ ~last.threw) =>
     last.tasks = todos

\* the same statement for the tools that call the store directly
C25_DirectTools ==
  (last.op \in VariantToolOps /\ ~last.threw) => last.tasks = todos

\* the same statement for the successful responses of mcp/todoTools.js
C25_LiveToolsOnSuccess ==
  (last.op \in LiveToolOps /\ last.ok) => last.tasks = todos

TitleRequests ==
  {"POSTtitle", "complete_todo_by_title", "variant_complete_todo_by_title"}

\* C30: a complete-by-title request whose search text is empty or blank
\* changes no todo: sequence and file are as before the request.
C30_BlankQueryChangesNothing ==
  (last.op \in TitleRequests /\ Blank(last.title)) =>
     todos = prev.todos /\ file = prev.file

\* the same statement for the route and the tool of mcp/todoTools.js alone
C30_RouteAndInternalTool ==
  (last.op \in {"POSTtitle", "complete_todo_by_title"} /\ Blank(last.title)) =>
     todos = prev.todos /\ file = prev.file

\* the first k calls of the worked example have been made, and no other
Played(k) == hist = SubSeq(Scenario, 1, k)

\* C26: from an empty store and without write failures, add("Buy milk")
\* returns {todo-1, "Buy milk", false}, add("Walk dog") returns todo-2,
\* completeByIndex(1) completes todo-1, completeByTitle("dog") completes
\* todo-2, deleteCompleted() removes both, and then the list is empty and
\* nextId is 3.
C26_WorkedExample ==
  /\ Played(1) => last.ok /\ last.todo = <<MkTodo(1, BuyMilk, FALSE)>>
  /\ Played(2) =>
       /\ last.ok
       /\ last.todo = <<MkTodo(2, WalkDog, FALSE)>>
       /\ todos = <<MkTodo(1, BuyMilk, FALSE), MkTodo(2, WalkDog, FALSE)>>
  /\ Played(3) =>
       /\ last.ok
       /\ last.todo = <<MkTodo(1, BuyMilk, TRUE)>>
       /\ todos = <<MkTodo(1, BuyMilk, TRUE), MkTodo(2, WalkDog, FALSE)>>
  /\ Played(4) =>
       /\ last.ok
       /\ last.todo = <<MkTodo(2, WalkDog, TRUE)>>
       /\ todos = <<MkTodo(1, BuyMilk, TRUE), MkTodo(2, WalkDog, TRUE)>>
  /\ Played(5) =>
       /\ last.ok
       /\ last.deleted = <<MkTodo(1, BuyMilk, TRUE), MkTodo(2, WalkDog, TRUE)>>
       /\ todos = <<>>
       /\ nextId = 3

\* the whole example has been played
C26_Witness ==
  /\ Played(5)
  /\ last.op = "deleteCompleted"
  /\ todos = <<>>

\* C27: in sequential execution where any write may fail and the process may
\* restart between calls, no id returned by a successful add is returned
\* again by a later add, before or after a restart, whether or not its
\* record was deleted in between.
C27_NoIdIssuedTwice ==
  \A i, j \in 1..Len(issued) : i # j => issued[i] # issued[j]

\* an add succeeded after a restart that followed the deletion of a record
\* an earlier add had returned
C27_Witness ==
  /\ last.op = "add"
  /\ last.ok
  /\ Len(issued) >= 2
  /\ Len(returned) = 1
  /\ issued[1] \in gone

\* every call has returned, at least two calls overlapped, and every write
\* succeeded
OverlapSettled ==
  /\ up = "open"
  /\ clean
  /\ \A c \in Slots : ~Writing(c)
  /\ \E c, d \in Slots : c # d /\ WroteOk(c) /\ WroteOk(d) /\ d \in calls[c].with

\* C28: when overlapping mutating calls have all returned and all their
\* writes succeeded, the backing file equals the in-memory state: same
\* sequence and same nextId.
C28_FileEqualsMemoryWhenSettled == OverlapSettled => FileEqualsMemory

\* the sequence part of the same statement
C28_SequenceAgrees ==
  OverlapSettled => (file.kind = "json" /\ file.todos = todos)

\* the add calls started on this store
AddCalls == {c \in Slots : calls[c].phase # "idle" /\ calls[c].res.op = "add"}

\* nextId of the store when it was opened
OpenedWith == create(prev.file, TRUE).st.nextId

\* C29: under any interleaving of overlapping add calls the ids the calls
\* return are pairwise distinct, and nextId is its value at open plus the
\* number of add calls started.
C29_OverlappingAddsDistinct ==
  up = "open" =>
     /\ \A c, d \in AddCalls :
          c # d => calls[c].todo[1].id # calls[d].todo[1].id
     /\ \A c \in AddCalls :
          calls[c].phase = "done" /\ calls[c].res.ok =>
             calls[c].res.todo[1].id = calls[c].todo[1].id
     /\ nextId = OpenedWith + Cardinality(AddCalls)

\* two adds overlapped and both returned
C29_Witness ==
  \E c, d \in AddCalls :
     /\ c # d
     /\ d \in calls[c].with
     /\ WroteOk(c)
     /\ WroteOk(d)
====
